---- MODULE Spec2Model ----
(***************************************************************************)
(* Model of weekly-report-ai: the paginated GitHub search fetcher, the PR  *)
(* status resolver, the Google Docs request assembler, the plain-text      *)
(* table renderer, and a run of dashboard_docs.py from its startup checks  *)
(* to the sharing of the document.                                         *)
(*                                                                         *)
(* Python strings are TLA+ strings where only len() and + are used on them *)
(* (Len and \o), and sequences of one-character strings where the code     *)
(* looks inside them (splitlines, strip, re.match).                        *)
(***************************************************************************)
EXTENDS Integers, Sequences, FiniteSets, TLC

VARIABLES
    (* fetch_all_prs_by_user *)
    pc,          \* "loop" while inside `while True`, "returned" after `return prs`
    total,       \* number of items the search collaborator holds for the query
    page,        \* local `page`
    prs,         \* local `prs`, the accumulated items
    requests,    \* page numbers of the GET requests issued so far, in order
    responses,   \* status codes received so far, in order
    sleeps,      \* arguments of the time.sleep calls made so far, in order
    (* get_pr_status *)
    sr_pc,            \* "idle", "entry", "awaiting" (detail GET issued) or "returned"
    sr_impl,          \* which copy of get_pr_status runs
    sr_pr,            \* the argument `pr`
    detail_requests,  \* URLs of the detail GET requests issued so far, in order
    sr_resp,          \* the detail response received, if any
    sr_result,        \* the value returned
    (* upload_to_google_docs (dashboard_docs.py), convert_markdown_to_requests (main.py) *)
    asm_pc,               \* "idle", "assemble" or "done"
    asm_impl,             \* which assembler runs
    asm_step,             \* number of the next block (dashboard_docs) or line (main)
    current_index,        \* local `current_index`, the running cursor
    requests_list,        \* local `requests_list`, the operations emitted so far
    overall_summary,      \* arguments of upload_to_google_docs
    final_header,
    user_table_data,
    dashboard_table_data,
    detailed_text,
    markdown_text,        \* argument of convert_markdown_to_requests
    (* build_plain_table_string *)
    tbl_pc,               \* "idle", "call" or "returned"
    table_data,           \* the argument `table_data`
    tbl_cells,            \* the padded cells of each rendered line, in order
    tbl_lines,            \* local `lines`
    tbl_result,           \* the string returned
    (* main of dashboard_docs.py and the functions it calls *)
    main_pc,              \* the stage main is in
    env,                  \* which environment variables are set and not empty
    catalog,              \* the items the search collaborator holds; prs are indices into it
    main_i,               \* index of the record a per-record loop is at
    pr_list,              \* local `pr_list` of generate_overall_summary
    status_calls,         \* the get_pr_status calls made: caller, record number, result
    llm_calls,            \* the POST requests sent to the text-generation endpoint
    llm_results,          \* what each summary function returned: caller, number, status, text
    api_calls,            \* the calls to GET /user, the document service and Drive: name, success
    batch_ops,            \* the operation lists sent by batchUpdate calls
    document_id,          \* the id create returned, "" before
    log                   \* the error and warning lines logged by main's stages

fetch_vars == <<pc, total, page, prs, requests, responses, sleeps>>

status_vars == <<sr_pc, sr_impl, sr_pr, detail_requests, sr_resp, sr_result>>

asm_inputs == <<overall_summary, final_header, user_table_data, dashboard_table_data,
                detailed_text, markdown_text>>

asm_vars == <<asm_pc, asm_impl, asm_step, current_index, requests_list, asm_inputs>>

table_vars == <<tbl_pc, table_data, tbl_cells, tbl_lines, tbl_result>>

run_vars == <<main_pc, env, catalog, main_i, pr_list, status_calls, llm_calls, llm_results,
              api_calls, batch_ops, document_id, log>>

vars == <<fetch_vars, status_vars, asm_vars, table_vars, run_vars>>

----------------------------------------------------------------------------
(* Bounds of the model *)

MaxTotal == 201
MaxRateLimits == 2
MaxTextLen == 2
MaxMarkdownLen == 4
MaxRows == 3
MaxCols == 2
MaxCellLen == 2
MaxPRs == 3

----------------------------------------------------------------------------
(* Paginated fetcher: fetch_all_prs_by_user *)

per_page == 100

COOLDOWN == 60

StatusCodes == {200, 403, 404, 500}

Min(a, b) == IF a < b THEN a ELSE b

\* The search collaborator: items are numbered 1..t in result order and page n
\* of size p holds items (n-1)*p+1 .. min(n*p, t).
SearchPage(t, p, n) ==
    LET first == (n - 1) * p + 1
        last  == Min(n * p, t)
    IN  IF last < first THEN <<>> ELSE [i \in 1..(last - first + 1) |-> first + i - 1]

\* a loop that stops only on an empty page
IsLastPage_OnlyWhenEmpty(items) == Len(items) = 0

\* a loop that also stops on a full page
IsLastPage_OffByOne(items) == Len(items) <= per_page

\* `if len(items) < per_page: break`
IsLastPage(items) == Len(items) < per_page

\* `prs.extend(items)`
Extend(acc, items) == acc \o items

\* a retry that advances to the next page
PageAfterRateLimit_Advances(p) == p + 1

\* `time.sleep(60); continue`: the page counter after a rate-limited request
PageAfterRateLimit(p) == p

\* a loop that asks for a full page again
PageAfterFullPage_Stays(p) == p

\* `page += 1`
PageAfterFullPage(p) == p + 1

Count(seq, v) == Cardinality({i \in 1..Len(seq) : seq[i] = v})

\* status 403: sleep for the cooldown and repeat the loop body
FetchRateLimited ==
    /\ pc = "loop"
    /\ Count(responses, 403) < MaxRateLimits
    /\ requests' = Append(requests, page)
    /\ responses' = Append(responses, 403)
    /\ sleeps' = Append(sleeps, COOLDOWN)
    /\ page' = PageAfterRateLimit(page)
    /\ UNCHANGED <<pc, total, prs>>
    /\ UNCHANGED <<status_vars, asm_vars, table_vars, run_vars>>

\* an error branch that gives up the records accumulated so far
FetchError_DropsPartial ==
    /\ pc = "loop"
    /\ \E status \in StatusCodes \ {200, 403} :
          /\ requests' = Append(requests, page)
          /\ responses' = Append(responses, status)
    /\ pc' = "returned"
    /\ prs' = <<>>
    /\ UNCHANGED <<total, page, sleeps>>
    /\ UNCHANGED <<status_vars, asm_vars, table_vars, run_vars>>

\* an error branch that ends the process
FetchError_Fatal ==
    /\ pc = "loop"
    /\ \E status \in StatusCodes \ {200, 403} :
          /\ requests' = Append(requests, page)
          /\ responses' = Append(responses, status)
    /\ pc' = "returned"
    /\ main_pc' = "crashed"
    /\ UNCHANGED <<total, page, prs, sleeps>>
    /\ UNCHANGED <<env, catalog, main_i, pr_list, status_calls, llm_calls, llm_results,
                   api_calls, batch_ops, document_id, log>>
    /\ UNCHANGED <<status_vars, asm_vars, table_vars>>

\* any other status than 200: log the error and break
FetchError ==
    /\ pc = "loop"
    /\ \E status \in StatusCodes \ {200, 403} :
          /\ requests' = Append(requests, page)
          /\ responses' = Append(responses, status)
    /\ pc' = "returned"
    /\ UNCHANGED <<total, page, prs, sleeps>>
    /\ UNCHANGED <<status_vars, asm_vars, table_vars, run_vars>>

\* status 200: extend prs, then break on a short page or advance the page
FetchPage ==
    /\ pc = "loop"
    /\ LET items == SearchPage(total, per_page, page)
       IN  /\ requests' = Append(requests, page)
           /\ responses' = Append(responses, 200)
           /\ prs' = Extend(prs, items)
           /\ IF IsLastPage(items)
                 THEN pc' = "returned" /\ page' = page
                 ELSE pc' = "loop" /\ page' = PageAfterFullPage(page)
    /\ UNCHANGED <<total, sleeps>>
    /\ UNCHANGED <<status_vars, asm_vars, table_vars, run_vars>>

\* entry of fetch_all_prs_by_user: `prs = []`, `page = 1`
FetchInit ==
    /\ pc = "loop"
    /\ total \in 0..MaxTotal
    /\ page = 1
    /\ prs = <<>>
    /\ requests = <<>>
    /\ responses = <<>>
    /\ sleeps = <<>>

\* the fetcher is not running
FetchIdle ==
    /\ pc = "idle"
    /\ total = 0
    /\ page = 1
    /\ prs = <<>>
    /\ requests = <<>>
    /\ responses = <<>>
    /\ sleeps = <<>>

----------------------------------------------------------------------------
(* Status resolver: get_pr_status *)

\* a key that is missing from a dict (dict.get then gives None or the default)
Absent == "<absent>"

\* JSON null
Null == "<null>"

NoResponse == [status_code |-> 0, merged_at |-> Absent]

NoRecord == [state |-> Absent, has_pull_request |-> FALSE, url |-> Absent]

Impls == {"dashboard_docs", "github_api"}

\* the search items get_pr_status is applied to: "state" and "pull_request"
\* may be missing, and "url" may be missing or empty
Records ==
    {r \in [state : {Absent, "open", "closed"},
            has_pull_request : BOOLEAN,
            url : {Absent, "", "u1", "u2"}] :
        ~r.has_pull_request => r.url = Absent}

\* what the detail collaborator can answer
DetailResponses ==
    [status_code : StatusCodes,
     merged_at : {Absent, Null, "", "2024-01-05T10:00:00Z"}]

\* a truth test that takes the empty string for a value
Truthy_EmptyCounts(v) == v \notin {Absent, Null}

\* Python truth value of an optional string
Truthy(v) == v \notin {Absent, Null, ""}

\* `pr.get("state", "unknown")`
CoarseState(pr) == IF pr.state = Absent THEN "unknown" ELSE pr.state

\* a guard that forgets the state test
NeedsDetail_AnyState(pr) == pr.has_pull_request /\ Truthy(pr.url)

\* a guard that forgets the `if pr_url` test
NeedsDetail_NoUrlCheck(pr) == CoarseState(pr) = "closed" /\ pr.has_pull_request

\* `if status == "closed" and "pull_request" in pr` and then `if pr_url`
NeedsDetail(pr) ==
    CoarseState(pr) = "closed" /\ pr.has_pull_request /\ Truthy(pr.url)

\* a failure branch that reports the status as unknown
get_pr_status_FailureUnknown(pr, resp) ==
    IF resp.status_code = 200
       THEN IF Truthy(resp.merged_at) THEN "merged" ELSE "closed"
       ELSE "unknown"

\* dashboard_docs.py and main.py, once the detail response is there
get_pr_status(pr, resp) ==
    IF resp.status_code = 200
       THEN IF Truthy(resp.merged_at) THEN "merged" ELSE "closed"
       ELSE "closed"

\* github_api.py, once the detail response is there: a status other than 200
\* falls through to `return status`
github_api_get_pr_status(pr, resp) ==
    IF resp.status_code = 200
       THEN IF Truthy(resp.merged_at) THEN "merged" ELSE "closed"
       ELSE CoarseState(pr)

\* no detail request is due: `return status`
StatusDirect ==
    /\ sr_pc = "entry"
    /\ ~NeedsDetail(sr_pr)
    /\ sr_result' = CoarseState(sr_pr)
    /\ sr_pc' = "returned"
    /\ UNCHANGED <<sr_impl, sr_pr, detail_requests, sr_resp>>
    /\ UNCHANGED <<fetch_vars, asm_vars, table_vars, run_vars>>

\* `requests.get(pr_url, headers=headers)`
StatusRequestDetail ==
    /\ sr_pc = "entry"
    /\ NeedsDetail(sr_pr)
    /\ detail_requests' = Append(detail_requests, sr_pr.url)
    /\ sr_pc' = "awaiting"
    /\ UNCHANGED <<sr_impl, sr_pr, sr_resp, sr_result>>
    /\ UNCHANGED <<fetch_vars, asm_vars, table_vars, run_vars>>

\* the detail response arrives and the function returns
StatusDetailResponse ==
    /\ sr_pc = "awaiting"
    /\ \E resp \in DetailResponses :
          /\ sr_resp' = resp
          /\ sr_result' = IF sr_impl = "github_api"
                             THEN github_api_get_pr_status(sr_pr, resp)
                             ELSE get_pr_status(sr_pr, resp)
    /\ sr_pc' = "returned"
    /\ UNCHANGED <<sr_impl, sr_pr, detail_requests>>
    /\ UNCHANGED <<fetch_vars, asm_vars, table_vars, run_vars>>

\* a call get_pr_status(pr)
StatusInit ==
    /\ sr_pc = "entry"
    /\ sr_impl \in Impls
    /\ sr_pr \in Records
    /\ detail_requests = <<>>
    /\ sr_resp = NoResponse
    /\ sr_result = Absent

\* the resolver is not running
StatusIdle ==
    /\ sr_pc = "idle"
    /\ sr_impl = "dashboard_docs"
    /\ sr_pr = NoRecord
    /\ detail_requests = <<>>
    /\ sr_resp = NoResponse
    /\ sr_result = Absent

----------------------------------------------------------------------------
(* Text helpers: Python str operations used by the assemblers *)

\* `c * n`
RECURSIVE Repeat(_, _)
Repeat(c, n) == IF n <= 0 THEN "" ELSE c \o Repeat(c, n - 1)

\* `s.ljust(width)`
ljust(s, width) == IF Len(s) >= width THEN s ELSE s \o Repeat(" ", width - Len(s))

\* `sep.join(parts)`
RECURSIVE Join(_, _)
Join(sep, parts) ==
    IF parts = <<>> THEN ""
    ELSE IF Len(parts) = 1 THEN parts[1]
    ELSE parts[1] \o sep \o Join(sep, Tail(parts))

\* the strings of at most n characters over the alphabet
RECURSIVE TextsUpTo(_, _)
TextsUpTo(alphabet, n) ==
    IF n = 0 THEN {""}
    ELSE LET shorter == TextsUpTo(alphabet, n - 1)
         IN  shorter \cup {t \o c : t \in shorter, c \in alphabet}

----------------------------------------------------------------------------
(* Document assembler of dashboard_docs.py: upload_to_google_docs *)

\* {"insertText": {"location": {"index": index}, "text": text}}
InsertText(index, text) ==
    [kind |-> "insertText", index |-> index, text |-> text,
     startIndex |-> 0, endIndex |-> 0, style |-> ""]

\* {"updateTextStyle": {"range": {...}, "textStyle": {... "Courier New" ...}}}
UpdateTextStyle(startIndex, endIndex) ==
    [kind |-> "updateTextStyle", index |-> 0, text |-> "",
     startIndex |-> startIndex, endIndex |-> endIndex, style |-> "Courier New"]

\* a length that forgets the appended line terminator
insert_plain_text_request_NoNewlineInLength(text, start_index) ==
    [req |-> InsertText(start_index, text \o "\n"), len |-> Len(text)]

\* insert_plain_text_request: the pair (request, length)
insert_plain_text_request(text, start_index) ==
    [req |-> InsertText(start_index, text \o "\n"), len |-> Len(text) + 1]

\* `zip(*table_data)`: as many columns as the shortest row has
NumColumns(rows) ==
    LET lens == {Len(rows[r]) : r \in 1..Len(rows)}
    IN  CHOOSE n \in lens : \A k \in lens : n <= k

\* widths taken from the header row alone
ColumnWidths_HeaderOnly(rows) ==
    [c \in 1..NumColumns(rows) |-> Len(rows[1][c])]

\* `max(len(str(cell)) for cell in col)` for each column
ColumnWidths(rows) ==
    [c \in 1..NumColumns(rows) |->
        LET ws == {Len(rows[r][c]) : r \in 1..Len(rows)}
        IN  CHOOSE w \in ws : \A k \in ws : k <= w]

\* `str(cell).ljust(width) for cell, width in zip(row, col_widths)`
TableCells(row, col_widths) ==
    [c \in 1..Min(Len(row), Len(col_widths)) |-> ljust(row[c], col_widths[c])]

\* `"-" * width for width in col_widths`
SeparatorCells(col_widths) ==
    [c \in 1..Len(col_widths) |-> Repeat("-", col_widths[c])]

\* the cells of the header line, the separator line and the data lines
TableCellRows(rows) ==
    LET col_widths == ColumnWidths(rows)
    IN  <<TableCells(rows[1], col_widths), SeparatorCells(col_widths)>>
        \o [r \in 1..(Len(rows) - 1) |-> TableCells(rows[r + 1], col_widths)]

\* `" | ".join(...)` of a row's cells
TableLine(row, col_widths) == Join(" | ", TableCells(row, col_widths))

\* `"-+-".join("-" * width for width in col_widths)`
TableSeparator(col_widths) == Join("-+-", SeparatorCells(col_widths))

\* local `lines` when the function returns
TableLines(rows) ==
    LET col_widths == ColumnWidths(rows)
    IN  <<TableLine(rows[1], col_widths), TableSeparator(col_widths)>>
        \o [r \in 1..(Len(rows) - 1) |-> TableLine(rows[r + 1], col_widths)]

build_plain_table_string(rows) == Join("\n", TableLines(rows))

\* one call build_plain_table_string(table_data)
BuildTable ==
    /\ tbl_pc = "call"
    /\ tbl_cells' = TableCellRows(table_data)
    /\ tbl_lines' = TableLines(table_data)
    /\ tbl_result' = build_plain_table_string(table_data)
    /\ tbl_pc' = "returned"
    /\ UNCHANGED table_data
    /\ UNCHANGED <<fetch_vars, status_vars, asm_vars, run_vars>>

CellTexts == TextsUpTo({"x"}, MaxCellLen)

\* the rows of 1 to MaxCols cells
TableRows == UNION {[1..n -> CellTexts] : n \in 1..MaxCols}

\* the tables of r rows, header included
TablesOf(r) == [1..r -> TableRows]

\* a call with a table of a header row and up to MaxRows - 1 data rows
TableInit ==
    /\ tbl_pc = "call"
    /\ table_data \in UNION {TablesOf(r) : r \in 1..MaxRows}
    /\ tbl_cells = <<>>
    /\ tbl_lines = <<>>
    /\ tbl_result = ""

\* build_plain_table_string is not running
TableIdle ==
    /\ tbl_pc = "idle"
    /\ table_data = <<>>
    /\ tbl_cells = <<>>
    /\ tbl_lines = <<>>
    /\ tbl_result = ""

\* append one insertText for text and advance the cursor by the returned length
EmitPlain(text) ==
    LET r == insert_plain_text_request(text, current_index)
    IN  /\ requests_list' = Append(requests_list, r.req)
        /\ current_index' = current_index + r.len

\* a style range that stops before the line terminator
EmitMonospace_RangeWithoutTerminator(text) ==
    LET r == insert_plain_text_request(text, current_index)
    IN  /\ requests_list' = Append(Append(requests_list, r.req),
                                   UpdateTextStyle(current_index, current_index + Len(text)))
        /\ current_index' = current_index + r.len

\* the same, with an updateTextStyle over the inserted range in between
EmitMonospace(text) ==
    LET r == insert_plain_text_request(text, current_index)
    IN  /\ requests_list' = Append(Append(requests_list, r.req),
                                   UpdateTextStyle(current_index, current_index + r.len))
        /\ current_index' = current_index + r.len

AtBlock(n) == asm_impl = "dashboard_docs" /\ asm_pc = "assemble" /\ asm_step = n

NextBlock == asm_step' = asm_step + 1 /\ UNCHANGED <<asm_pc, asm_impl, asm_inputs>>

\* header_text = "Overall Summary\n"
InsertOverallHeader ==
    /\ AtBlock(1)
    /\ EmitPlain("Overall Summary\n")
    /\ NextBlock
    /\ UNCHANGED <<fetch_vars, status_vars, table_vars, run_vars>>

\* an assembly that puts the weekly header before the overall summary
InsertOverallSummary_HeaderFirst ==
    /\ AtBlock(2)
    /\ EmitPlain(final_header)
    /\ NextBlock
    /\ UNCHANGED <<fetch_vars, status_vars, table_vars, run_vars>>

InsertOverallSummary ==
    /\ AtBlock(2)
    /\ EmitPlain(overall_summary)
    /\ NextBlock
    /\ UNCHANGED <<fetch_vars, status_vars, table_vars, run_vars>>

InsertHeader ==
    /\ AtBlock(3)
    /\ EmitPlain(final_header)
    /\ NextBlock
    /\ UNCHANGED <<fetch_vars, status_vars, table_vars, run_vars>>

InsertUserTable ==
    /\ AtBlock(4)
    /\ EmitMonospace(build_plain_table_string(user_table_data))
    /\ NextBlock
    /\ UNCHANGED <<fetch_vars, status_vars, table_vars, run_vars>>

InsertNewlineAfterUserTable ==
    /\ AtBlock(5)
    /\ EmitPlain("\n")
    /\ NextBlock
    /\ UNCHANGED <<fetch_vars, status_vars, table_vars, run_vars>>

InsertDashboardTable ==
    /\ AtBlock(6)
    /\ EmitMonospace(build_plain_table_string(dashboard_table_data))
    /\ NextBlock
    /\ UNCHANGED <<fetch_vars, status_vars, table_vars, run_vars>>

InsertNewlineAfterDashboardTable ==
    /\ AtBlock(7)
    /\ EmitPlain("\n")
    /\ NextBlock
    /\ UNCHANGED <<fetch_vars, status_vars, table_vars, run_vars>>

\* the last block: the operation list is complete
InsertDetailedSummaries ==
    /\ AtBlock(8)
    /\ EmitPlain(detailed_text)
    /\ asm_step' = asm_step + 1
    /\ asm_pc' = "done"
    /\ UNCHANGED <<asm_impl, asm_inputs>>
    /\ UNCHANGED <<fetch_vars, status_vars, table_vars, run_vars>>

TextAlphabet == {"a", "\n"}

UserTableHeader == <<"User", "PR Count">>

DashboardTableHeader == <<"Repo", "PR Number", "Title", "Author", "Created At", "Status">>

\* results of generate_user_summary_table
UserTables ==
    { <<UserTableHeader>>,
      <<UserTableHeader, <<"alice", "3">>>>,
      <<UserTableHeader, <<"bob", "12">>, <<"unknown", "1">>>> }

\* results of generate_dashboard_table
DashboardTables ==
    { <<DashboardTableHeader>>,
      <<DashboardTableHeader,
        <<"org/repo", "7", "Fix the login page", "alice", "2024-01-02T10:00:00Z", "open">>,
        <<"unknown", "", "", "unknown", "", "merged">>>> }

\* the header built by main
Headers ==
    { "Weekly PR Summary\nDate Range: 2024-01-01 to 2024-01-07\n\n" }

\* entry of upload_to_google_docs: `requests_list = []`, `current_index = 1`
UploadInit ==
    /\ asm_pc = "assemble"
    /\ asm_impl = "dashboard_docs"
    /\ asm_step = 1
    /\ current_index = 1
    /\ requests_list = <<>>
    /\ overall_summary \in TextsUpTo(TextAlphabet, MaxTextLen) \cup {"Overall summary unavailable."}
    /\ final_header \in Headers
    /\ user_table_data \in UserTables
    /\ dashboard_table_data \in DashboardTables
    /\ detailed_text \in TextsUpTo(TextAlphabet, MaxTextLen)
    /\ markdown_text = <<>>

\* no assembler is running
AssemblerIdle ==
    /\ asm_pc = "idle"
    /\ asm_impl = "dashboard_docs"
    /\ asm_step = 1
    /\ current_index = 1
    /\ requests_list = <<>>
    /\ overall_summary = ""
    /\ final_header = ""
    /\ user_table_data = <<UserTableHeader>>
    /\ dashboard_table_data = <<DashboardTableHeader>>
    /\ detailed_text = ""
    /\ markdown_text = <<>>

----------------------------------------------------------------------------
(* The records main works on, and the pure helpers of its stages *)

\* the environment variables the program reads
EnvNames == {"GRANITE_ENDPOINT", "GITHUB_TOKEN", "SHARE_EMAIL", "GRANITE_TOKEN"}

\* env[v] is TRUE when os.getenv(v) is a non-empty string
Envs == [EnvNames -> BOOLEAN]

AllSet == [v \in EnvNames |-> TRUE]

\* the search item at position n of the collection
PR(n, login, state, has_pull_request, has_html_url) ==
    [number |-> n,
     title |-> "PR title " \o ToString(n),
     body |-> "Body of PR " \o ToString(n),
     login |-> login,
     state |-> state,
     has_pull_request |-> has_pull_request,
     url |-> IF has_pull_request
                THEN "https://api.github.com/repos/org/repo/pulls/" \o ToString(n)
                ELSE Absent,
     html_url |-> IF has_html_url
                     THEN "https://github.com/org/repo/pull/" \o ToString(n)
                     ELSE Absent,
     repository_url |-> "https://api.github.com/repos/org/repo",
     created_at |-> "2024-01-02T10:00:00Z"]

\* the collections of at most n items whose fields are drawn from the given sets
RECURSIVE Collections(_, _, _, _, _)
Collections(n, logins, states, pull_requests, html_urls) ==
    IF n = 0 THEN {<<>>}
    ELSE LET shorter == Collections(n - 1, logins, states, pull_requests, html_urls)
         IN  shorter \cup
             {Append(c, PR(Len(c) + 1, l, s, p, h)) :
                 c \in {d \in shorter : Len(d) = n - 1},
                 l \in logins, s \in states, p \in pull_requests, h \in html_urls}

\* `all_prs`: the records fetch_all_prs_by_user returned
all_prs == [k \in 1..Len(prs) |-> catalog[prs[k]]]

\* `pr.get("user", {}).get("login", "unknown")`
UserOf(pr) == IF pr.login = Absent THEN "unknown" ELSE pr.login

\* `"/".join(repo_url.split("/")[-2:]) if repo_url else "unknown"`
RepoOf(pr) ==
    CASE pr.repository_url = "https://api.github.com/repos/org/repo" -> "org/repo"
      [] pr.repository_url \in {Absent, ""} -> "unknown"

\* a counter that starts a new entry for every record
Increment_NoMerge(counts, user) == Append(counts, [user |-> user, count |-> 1])

\* `user_counts[user] += 1` on a dict that keeps insertion order
Increment(counts, user) ==
    IF \E k \in 1..Len(counts) : counts[k].user = user
       THEN [k \in 1..Len(counts) |->
               IF counts[k].user = user
                  THEN [user |-> user, count |-> counts[k].count + 1]
                  ELSE counts[k]]
       ELSE Append(counts, [user |-> user, count |-> 1])

\* `user_counts` after the loop over the first n records
RECURSIVE UserCounts(_, _)
UserCounts(records, n) ==
    IF n = 0 THEN <<>>
    ELSE Increment(UserCounts(records, n - 1), UserOf(records[n]))

\* generate_user_summary_table
generate_user_summary_table(records) ==
    LET counts == UserCounts(records, Len(records))
    IN  <<UserTableHeader>>
        \o [k \in 1..Len(counts) |-> <<counts[k].user, ToString(counts[k].count)>>]

\* a row that shows the state of the search item
DashboardRow_CoarseState(pr, status) ==
    <<RepoOf(pr), ToString(pr.number), pr.title, UserOf(pr), pr.created_at, CoarseState(pr)>>

\* the row generate_dashboard_table appends for a record and its status
DashboardRow(pr, status) ==
    <<RepoOf(pr), ToString(pr.number), pr.title, UserOf(pr), pr.created_at, status>>

\* the value get_pr_status returns for pr when the detail collaborator, if
\* asked, answers resp
ResolveStatus(pr, resp) ==
    IF NeedsDetail(pr) THEN get_pr_status(pr, resp) ELSE CoarseState(pr)

\* heading of a record in generate_detailed_pr_summaries
DetailedHeading(pr) ==
    LET heading == "PR " \o ToString(pr.number) \o ": " \o pr.title
    IN  IF Truthy(pr.html_url) THEN heading \o " (Link: " \o pr.html_url \o ")" ELSE heading

\* f"{heading}\n\n{detailed_summary}\n\n{'-' * 40}\n\n"
DetailedSection(pr, detailed_summary) ==
    DetailedHeading(pr) \o "\n\n" \o detailed_summary \o "\n\n" \o Repeat("-", 40) \o "\n\n"

\* prompt of generate_pr_detailed_summary
DetailedPrompt(pr) ==
    "You are a knowledgeable code and workflow analyst. "
    \o "Summarize the following pull request in detail, highlighting its purpose, changes, and notable insights. "
    \o "Include any actionable observations.\n\n"
    \o "Title: " \o pr.title \o "\n\n"
    \o "Body: " \o pr.body \o "\n\n"
    \o "Detailed Summary:"

\* prompt of generate_overall_summary
OverallPrompt(lines) ==
    "You are a professional technical writer. Summarize the following list of pull requests into a concise overall summary "
    \o "that captures the key changes and their impact. Here are the PRs:\n\n"
    \o Join("\n", lines)
    \o "\n\nOverall Summary:"

\* f"- {title} ({status})"
OverallLine(pr, status) == "- " \o pr.title \o " (" \o status \o ")"

RawSummary == " Adds a login page.\n"

\* what the text-generation collaborator can answer: a completion, a 200
\* without text in its first choice, or an error
LLMResponses ==
    { [status_code |-> 200, text |-> RawSummary],
      [status_code |-> 200, text |-> Absent],
      [status_code |-> 500, text |-> Absent] }

\* `.get("text", "").strip()`
StrippedText(resp) ==
    CASE resp.text = Absent -> ""
      [] resp.text = RawSummary -> "Adds a login page."

Unavailable == "Overall summary unavailable."

\* a failure branch of generate_overall_summary that gives empty text
OverallResult_EmptyOnError(resp) ==
    IF resp.status_code = 200 THEN StrippedText(resp) ELSE ""

\* what generate_overall_summary returns for a response
OverallResult(resp) ==
    IF resp.status_code = 200 THEN StrippedText(resp) ELSE Unavailable

\* what generate_pr_detailed_summary returns for a response
DetailedResult(resp) ==
    IF resp.status_code = 200 THEN StrippedText(resp) ELSE ""

\* the detail responses main's stages are tried with
RunDetailResponses ==
    { [status_code |-> 200, merged_at |-> "2024-01-05T10:00:00Z"],
      [status_code |-> 200, merged_at |-> Null],
      [status_code |-> 500, merged_at |-> Absent] }

----------------------------------------------------------------------------
(* Markdown converter of main.py: convert_markdown_to_requests *)

\* the characters a markdown text is made of in the model; a text is a
\* sequence of them
MarkdownAlphabet == {"#", " ", "a", "\n"}

Whitespace == {" ", "\n"}

MarkdownTexts == UNION {[1..n -> MarkdownAlphabet] : n \in 0..MaxMarkdownLen}

\* the str made of the characters of a sequence
RECURSIVE ToStr(_)
ToStr(chars) == IF chars = <<>> THEN "" ELSE Head(chars) \o ToStr(Tail(chars))

\* `text.splitlines()`: the lines without their terminators; a terminator at
\* the very end opens no further line
RECURSIVE splitlines(_)
splitlines(text) ==
    IF text = <<>> THEN <<>>
    ELSE LET breaks == {i \in 1..Len(text) : text[i] = "\n"}
         IN  IF breaks = {} THEN <<text>>
             ELSE LET k == CHOOSE i \in breaks : \A j \in breaks : i <= j
                  IN  <<SubSeq(text, 1, k - 1)>> \o splitlines(SubSeq(text, k + 1, Len(text)))

\* `not line.strip()`
IsBlankLine(line) == \A i \in 1..Len(line) : line[i] \in Whitespace

\* the number of "#" the line starts with
LeadingHashes(line) ==
    LET stops == {i \in 1..Len(line) : line[i] # "#"}
    IN  IF stops = {} THEN Len(line)
        ELSE (CHOOSE i \in stops : \A j \in stops : i <= j) - 1

\* `re.match(r"^(#{1,6})\s+(.*)", line)` matches
IsHeadingLine(line) ==
    LET h == LeadingHashes(line)
    IN  h >= 1 /\ h <= 6 /\ Len(line) > h /\ line[h + 1] \in Whitespace

\* group 2 of the match: what follows the hashes and the whitespace after them
HeadingText(line) ==
    LET h == LeadingHashes(line)
        rest == SubSeq(line, h + 1, Len(line))
        stops == {i \in 1..Len(rest) : rest[i] \notin Whitespace}
    IN  IF stops = {} THEN <<>>
        ELSE SubSeq(rest, CHOOSE i \in stops : \A j \in stops : i <= j, Len(rest))

\* `min(len(hashes), 6)`
HeadingLevel(line) == Min(LeadingHashes(line), 6)

\* {"updateParagraphStyle": {"range": {...}, "paragraphStyle": {"namedStyleType": "HEADING_n"}}}
UpdateParagraphStyle(startIndex, endIndex, level) ==
    [kind |-> "updateParagraphStyle", index |-> 0, text |-> "",
     startIndex |-> startIndex, endIndex |-> endIndex,
     style |-> "HEADING_" \o ToString(level)]

\* a cursor that advances by the length of the whole line, hashes included
HeadingAdvance_CountsMarkup(line) == Len(line) + 1

\* `current_index += len(text_to_insert)` for a heading
HeadingAdvance(line) == Len(ToStr(HeadingText(line)) \o "\n")

AtLine ==
    /\ asm_impl = "main"
    /\ asm_pc = "assemble"
    /\ asm_step <= Len(splitlines(markdown_text))

CurrentLine == splitlines(markdown_text)[asm_step]

NextLine == asm_step' = asm_step + 1 /\ UNCHANGED <<asm_pc, asm_impl, asm_inputs>>

\* an empty line: insert a newline
ConvertBlankLine ==
    /\ AtLine
    /\ IsBlankLine(CurrentLine)
    /\ requests_list' = Append(requests_list, InsertText(current_index, "\n"))
    /\ current_index' = current_index + 1
    /\ NextLine
    /\ UNCHANGED <<fetch_vars, status_vars, table_vars, run_vars>>

\* a heading: insert its text and style the inserted range
ConvertHeadingLine ==
    /\ AtLine
    /\ ~IsBlankLine(CurrentLine)
    /\ IsHeadingLine(CurrentLine)
    /\ LET text_to_insert == ToStr(HeadingText(CurrentLine)) \o "\n"
       IN  /\ requests_list' =
                 Append(Append(requests_list, InsertText(current_index, text_to_insert)),
                        UpdateParagraphStyle(current_index, current_index + Len(text_to_insert),
                                             HeadingLevel(CurrentLine)))
           /\ current_index' = current_index + HeadingAdvance(CurrentLine)
    /\ NextLine
    /\ UNCHANGED <<fetch_vars, status_vars, table_vars, run_vars>>

\* any other line: insert it followed by a newline
ConvertPlainLine ==
    /\ AtLine
    /\ ~IsBlankLine(CurrentLine)
    /\ ~IsHeadingLine(CurrentLine)
    /\ LET text_to_insert == ToStr(CurrentLine) \o "\n"
       IN  /\ requests_list' = Append(requests_list, InsertText(current_index, text_to_insert))
           /\ current_index' = current_index + Len(text_to_insert)
    /\ NextLine
    /\ UNCHANGED <<fetch_vars, status_vars, table_vars, run_vars>>

\* `return requests_list`
ConvertReturn ==
    /\ asm_impl = "main"
    /\ asm_pc = "assemble"
    /\ asm_step > Len(splitlines(markdown_text))
    /\ asm_pc' = "done"
    /\ UNCHANGED <<asm_impl, asm_step, current_index, requests_list, asm_inputs>>
    /\ UNCHANGED <<fetch_vars, status_vars, table_vars, run_vars>>

\* entry of convert_markdown_to_requests: `requests_list = []`, `current_index = 1`
ConvertInit ==
    /\ asm_pc = "assemble"
    /\ asm_impl = "main"
    /\ asm_step = 1
    /\ current_index = 1
    /\ requests_list = <<>>
    /\ overall_summary = ""
    /\ final_header = ""
    /\ user_table_data = <<UserTableHeader>>
    /\ dashboard_table_data = <<DashboardTableHeader>>
    /\ detailed_text = ""
    /\ markdown_text \in MarkdownTexts

----------------------------------------------------------------------------
(* main of dashboard_docs.py, stage by stage *)

NumPrs == Len(prs)

\* the record a per-record loop is at
CurrentPr == all_prs[main_i]

StatusWarning(pr, resp) ==
    IF NeedsDetail(pr) /\ resp.status_code # 200
       THEN <<"WARNING: Failed to get status for PR. Returning 'closed'.">>
       ELSE <<>>

\* the effects of one call get_pr_status(pr) answered by resp, made by caller
CallGetPrStatus(caller, pr, resp) ==
    /\ detail_requests' = IF NeedsDetail(pr) THEN Append(detail_requests, pr.url)
                                             ELSE detail_requests
    /\ status_calls' = Append(status_calls,
                              [caller |-> caller, number |-> pr.number,
                               status |-> ResolveStatus(pr, resp)])
    /\ log' = log \o StatusWarning(pr, resp)
    /\ UNCHANGED <<sr_pc, sr_impl, sr_pr, sr_resp, sr_result>>

\* a request to a collaborator and whether it succeeded
Call(name, ok) == [call |-> name, ok |-> ok]

\* a request about a document: create gives its id, the others name it
CallOn(name, ok, document) == [call |-> name, ok |-> ok, document |-> document]

\* module level: the three checks that end in exit(1)
ConfigCheck ==
    /\ main_pc = "import"
    /\ IF ~env["GRANITE_ENDPOINT"]
          THEN log' = Append(log, "ERROR: GRANITE_ENDPOINT is not set. Exiting.")
                 /\ main_pc' = "exited"
          ELSE IF ~env["GITHUB_TOKEN"]
          THEN log' = Append(log, "ERROR: GITHUB_TOKEN is not set. Exiting.")
                 /\ main_pc' = "exited"
          ELSE IF ~env["SHARE_EMAIL"]
          THEN log' = Append(log, "ERROR: SHARE_EMAIL is not set. Exiting.")
                 /\ main_pc' = "exited"
          ELSE log' = log /\ main_pc' = "username"
    /\ UNCHANGED <<env, catalog, main_i, pr_list, status_calls, llm_calls, llm_results,
                   api_calls, batch_ops, document_id>>
    /\ UNCHANGED <<fetch_vars, status_vars, asm_vars, table_vars>>

\* what GET /user can answer: a login, a 200 without login, an error
UserResponses ==
    { [status_code |-> 200, login |-> "alice"],
      [status_code |-> 200, login |-> Absent],
      [status_code |-> 401, login |-> Absent] }

\* get_authenticated_username, and on success the entry of fetch_all_prs_by_user
GetUsername ==
    /\ main_pc = "username"
    /\ \E resp \in UserResponses :
       /\ api_calls' = Append(api_calls, Call("github.user", resp.status_code = 200))
       /\ IF resp.status_code = 200 /\ Truthy(resp.login)
             THEN /\ main_pc' = "fetch"
                  /\ pc' = "loop"
                  /\ log' = log
             ELSE /\ main_pc' = "exited"
                  /\ pc' = pc
                  /\ log' = Append(log, "ERROR: Failed to fetch authenticated user info from GitHub")
    /\ UNCHANGED <<env, catalog, main_i, pr_list, status_calls, llm_calls, llm_results,
                   batch_ops, document_id>>
    /\ UNCHANGED <<total, page, prs, requests, responses, sleeps>>
    /\ UNCHANGED <<status_vars, asm_vars, table_vars>>

\* fetch_all_prs_by_user has returned: `all_prs = ...`
FetchReturned ==
    /\ main_pc = "fetch"
    /\ pc = "returned"
    /\ main_pc' = "overall"
    /\ main_i' = 1
    /\ UNCHANGED <<env, catalog, pr_list, status_calls, llm_calls, llm_results,
                   api_calls, batch_ops, document_id, log>>
    /\ UNCHANGED <<fetch_vars, status_vars, asm_vars, table_vars>>

\* generate_overall_summary: one turn of `for pr in prs`
OverallStatus ==
    /\ main_pc = "overall"
    /\ main_i <= NumPrs
    /\ \E resp \in RunDetailResponses :
          /\ CallGetPrStatus("generate_overall_summary", CurrentPr, resp)
          /\ pr_list' = Append(pr_list, OverallLine(CurrentPr, ResolveStatus(CurrentPr, resp)))
    /\ main_i' = main_i + 1
    /\ UNCHANGED <<main_pc, env, catalog, llm_calls, llm_results, api_calls, batch_ops,
                   document_id>>
    /\ UNCHANGED <<fetch_vars, asm_vars, table_vars>>

\* generate_overall_summary without GRANITE_TOKEN: no request is made
OverallNoToken ==
    /\ main_pc = "overall"
    /\ main_i > NumPrs
    /\ ~env["GRANITE_TOKEN"]
    /\ log' = Append(log, "ERROR: GRANITE_TOKEN is not set. Exiting.")
    /\ overall_summary' = Unavailable
    /\ llm_results' = Append(llm_results,
                             [caller |-> "generate_overall_summary", number |-> 0,
                              status_code |-> 0, text |-> Unavailable])
    /\ main_pc' = "header"
    /\ UNCHANGED <<env, catalog, main_i, pr_list, status_calls, llm_calls, api_calls,
                   batch_ops, document_id>>
    /\ UNCHANGED <<asm_pc, asm_impl, asm_step, current_index, requests_list, final_header,
                   user_table_data, dashboard_table_data, detailed_text, markdown_text>>
    /\ UNCHANGED <<fetch_vars, status_vars, table_vars>>

\* generate_overall_summary: the POST and what is made of its response
OverallPost ==
    /\ main_pc = "overall"
    /\ main_i > NumPrs
    /\ env["GRANITE_TOKEN"]
    /\ llm_calls' = Append(llm_calls,
                           [caller |-> "generate_overall_summary", number |-> 0,
                            prompt |-> OverallPrompt(pr_list)])
    /\ \E resp \in LLMResponses :
          /\ overall_summary' = OverallResult(resp)
          /\ llm_results' = Append(llm_results,
                                   [caller |-> "generate_overall_summary", number |-> 0,
                                    status_code |-> resp.status_code,
                                    text |-> OverallResult(resp)])
          /\ log' = IF resp.status_code = 200 THEN log
                    ELSE Append(log, "ERROR: Error generating overall summary")
    /\ main_pc' = "header"
    /\ UNCHANGED <<env, catalog, main_i, pr_list, status_calls, api_calls, batch_ops,
                   document_id>>
    /\ UNCHANGED <<asm_pc, asm_impl, asm_step, current_index, requests_list, final_header,
                   user_table_data, dashboard_table_data, detailed_text, markdown_text>>
    /\ UNCHANGED <<fetch_vars, status_vars, table_vars>>

\* main: `final_plain_header = ...`
MainHeader ==
    /\ main_pc = "header"
    /\ final_header' = "Weekly PR Summary\n" \o "Date Range: 2024-01-01 to 2024-01-07\n\n"
    /\ main_pc' = "user_table"
    /\ UNCHANGED <<env, catalog, main_i, pr_list, status_calls, llm_calls, llm_results,
                   api_calls, batch_ops, document_id, log>>
    /\ UNCHANGED <<asm_pc, asm_impl, asm_step, current_index, requests_list, overall_summary,
                   user_table_data, dashboard_table_data, detailed_text, markdown_text>>
    /\ UNCHANGED <<fetch_vars, status_vars, table_vars>>

\* main: `user_table_data = generate_user_summary_table(all_prs)`
MainUserTable ==
    /\ main_pc = "user_table"
    /\ user_table_data' = generate_user_summary_table(all_prs)
    /\ main_pc' = "dashboard"
    /\ main_i' = 1
    /\ UNCHANGED <<env, catalog, pr_list, status_calls, llm_calls, llm_results,
                   api_calls, batch_ops, document_id, log>>
    /\ UNCHANGED <<asm_pc, asm_impl, asm_step, current_index, requests_list, overall_summary,
                   final_header, dashboard_table_data, detailed_text, markdown_text>>
    /\ UNCHANGED <<fetch_vars, status_vars, table_vars>>

\* generate_dashboard_table: one turn of `for pr in prs`
DashboardAddRow ==
    /\ main_pc = "dashboard"
    /\ main_i <= NumPrs
    /\ \E resp \in RunDetailResponses :
          /\ CallGetPrStatus("generate_dashboard_table", CurrentPr, resp)
          /\ dashboard_table_data' =
                Append(dashboard_table_data,
                       DashboardRow(CurrentPr, ResolveStatus(CurrentPr, resp)))
    /\ main_i' = main_i + 1
    /\ UNCHANGED <<main_pc, env, catalog, pr_list, llm_calls, llm_results, api_calls,
                   batch_ops, document_id>>
    /\ UNCHANGED <<asm_pc, asm_impl, asm_step, current_index, requests_list, overall_summary,
                   final_header, user_table_data, detailed_text, markdown_text>>
    /\ UNCHANGED <<fetch_vars, table_vars>>

\* generate_dashboard_table: `return rows`
DashboardReturn ==
    /\ main_pc = "dashboard"
    /\ main_i > NumPrs
    /\ main_pc' = "detailed"
    /\ main_i' = 1
    /\ UNCHANGED <<env, catalog, pr_list, status_calls, llm_calls, llm_results,
                   api_calls, batch_ops, document_id, log>>
    /\ UNCHANGED <<fetch_vars, status_vars, asm_vars, table_vars>>

\* generate_detailed_pr_summaries: one turn of `for pr in prs` with
\* GRANITE_TOKEN set: generate_pr_detailed_summary posts the prompt
DetailedPost ==
    /\ main_pc = "detailed"
    /\ main_i <= NumPrs
    /\ env["GRANITE_TOKEN"]
    /\ llm_calls' = Append(llm_calls,
                           [caller |-> "generate_pr_detailed_summary",
                            number |-> CurrentPr.number,
                            prompt |-> DetailedPrompt(CurrentPr)])
    /\ \E resp \in LLMResponses :
          /\ detailed_text' = detailed_text \o DetailedSection(CurrentPr, DetailedResult(resp))
          /\ llm_results' = Append(llm_results,
                                   [caller |-> "generate_pr_detailed_summary",
                                    number |-> CurrentPr.number,
                                    status_code |-> resp.status_code,
                                    text |-> DetailedResult(resp)])
          /\ log' = IF resp.status_code = 200 THEN log
                    ELSE Append(log, "ERROR: Error calling Granite API for PR")
    /\ sleeps' = Append(sleeps, 1)
    /\ main_i' = main_i + 1
    /\ UNCHANGED <<main_pc, env, catalog, pr_list, status_calls, api_calls, batch_ops,
                   document_id>>
    /\ UNCHANGED <<asm_pc, asm_impl, asm_step, current_index, requests_list, overall_summary,
                   final_header, user_table_data, dashboard_table_data, markdown_text>>
    /\ UNCHANGED <<pc, total, page, prs, requests, responses>>
    /\ UNCHANGED <<status_vars, table_vars>>

\* the same turn without GRANITE_TOKEN: generate_pr_detailed_summary logs and
\* returns "" without a request
DetailedNoToken ==
    /\ main_pc = "detailed"
    /\ main_i <= NumPrs
    /\ ~env["GRANITE_TOKEN"]
    /\ log' = Append(log, "ERROR: GRANITE_TOKEN is not set. Exiting.")
    /\ detailed_text' = detailed_text \o DetailedSection(CurrentPr, "")
    /\ llm_results' = Append(llm_results,
                             [caller |-> "generate_pr_detailed_summary",
                              number |-> CurrentPr.number,
                              status_code |-> 0, text |-> ""])
    /\ sleeps' = Append(sleeps, 1)
    /\ main_i' = main_i + 1
    /\ UNCHANGED <<main_pc, env, catalog, pr_list, status_calls, llm_calls, api_calls,
                   batch_ops, document_id>>
    /\ UNCHANGED <<asm_pc, asm_impl, asm_step, current_index, requests_list, overall_summary,
                   final_header, user_table_data, dashboard_table_data, markdown_text>>
    /\ UNCHANGED <<pc, total, page, prs, requests, responses>>
    /\ UNCHANGED <<status_vars, table_vars>>

\* generate_detailed_pr_summaries: `return summaries`
DetailedReturn ==
    /\ main_pc = "detailed"
    /\ main_i > NumPrs
    /\ main_pc' = "upload"
    /\ UNCHANGED <<env, catalog, main_i, pr_list, status_calls, llm_calls, llm_results,
                   api_calls, batch_ops, document_id, log>>
    /\ UNCHANGED <<fetch_vars, status_vars, asm_vars, table_vars>>

\* upload_to_google_docs: documents().create(), which may raise
CreateDocument ==
    /\ main_pc = "upload"
    /\ asm_pc = "idle"
    /\ \E ok \in BOOLEAN :
          /\ api_calls' = Append(api_calls,
                                 CallOn("docs.create", ok, IF ok THEN "doc-1" ELSE ""))
          /\ IF ok
                THEN /\ document_id' = "doc-1"
                     /\ asm_pc' = "assemble"
                     /\ main_pc' = main_pc
                ELSE /\ document_id' = document_id
                     /\ asm_pc' = asm_pc
                     /\ main_pc' = "crashed"
    /\ UNCHANGED <<env, catalog, main_i, pr_list, status_calls, llm_calls, llm_results,
                   batch_ops, log>>
    /\ UNCHANGED <<asm_impl, asm_step, current_index, requests_list, asm_inputs>>
    /\ UNCHANGED <<fetch_vars, status_vars, table_vars>>

\* an upload that sends the operations in two calls
BatchUpdate_InTwoCalls ==
    /\ main_pc = "upload"
    /\ asm_pc = "done"
    /\ batch_ops' = Append(Append(batch_ops, SubSeq(requests_list, 1, 5)),
                           SubSeq(requests_list, 6, Len(requests_list)))
    /\ \E ok \in BOOLEAN :
          /\ api_calls' = Append(Append(api_calls,
                                        CallOn("docs.batchUpdate", TRUE, document_id)),
                                 CallOn("docs.batchUpdate", ok, document_id))
          /\ main_pc' = IF ok THEN "share" ELSE "crashed"
    /\ UNCHANGED <<env, catalog, main_i, pr_list, status_calls, llm_calls, llm_results,
                   document_id, log>>
    /\ UNCHANGED <<fetch_vars, status_vars, asm_vars, table_vars>>

\* an upload that returns the id although the batch update failed
BatchUpdate_FailureIgnored ==
    /\ main_pc = "upload"
    /\ asm_pc = "done"
    /\ batch_ops' = Append(batch_ops, requests_list)
    /\ \E ok \in BOOLEAN :
          /\ api_calls' = Append(api_calls, CallOn("docs.batchUpdate", ok, document_id))
          /\ main_pc' = "share"
    /\ UNCHANGED <<env, catalog, main_i, pr_list, status_calls, llm_calls, llm_results,
                   document_id, log>>
    /\ UNCHANGED <<fetch_vars, status_vars, asm_vars, table_vars>>

\* upload_to_google_docs: documents().batchUpdate() with the whole list,
\* which may raise; on success the function returns document_id
BatchUpdate ==
    /\ main_pc = "upload"
    /\ asm_pc = "done"
    /\ batch_ops' = Append(batch_ops, requests_list)
    /\ \E ok \in BOOLEAN :
          /\ api_calls' = Append(api_calls, CallOn("docs.batchUpdate", ok, document_id))
          /\ main_pc' = IF ok THEN "share" ELSE "crashed"
    /\ UNCHANGED <<env, catalog, main_i, pr_list, status_calls, llm_calls, llm_results,
                   document_id, log>>
    /\ UNCHANGED <<fetch_vars, status_vars, asm_vars, table_vars>>

\* a share whose failure ends the run
ShareDocument_FailureFatal ==
    /\ main_pc = "share"
    /\ \E ok \in BOOLEAN :
          /\ api_calls' = Append(api_calls,
                                 CallOn("drive.permissions.create", ok, document_id))
          /\ log' = log
          /\ main_pc' = IF ok THEN "done" ELSE "crashed"
    /\ UNCHANGED <<env, catalog, main_i, pr_list, status_calls, llm_calls, llm_results,
                   batch_ops, document_id>>
    /\ UNCHANGED <<fetch_vars, status_vars, asm_vars, table_vars>>

\* share_document_with_email: permissions().create() inside try/except
ShareDocument ==
    /\ main_pc = "share"
    /\ \E ok \in BOOLEAN :
          /\ api_calls' = Append(api_calls,
                                 CallOn("drive.permissions.create", ok, document_id))
          /\ log' = IF ok THEN log ELSE Append(log, "ERROR: Failed to share document")
    /\ main_pc' = "done"
    /\ UNCHANGED <<env, catalog, main_i, pr_list, status_calls, llm_calls, llm_results,
                   batch_ops, document_id>>
    /\ UNCHANGED <<fetch_vars, status_vars, asm_vars, table_vars>>

\* the values main's variables have before main_pc reaches the stages
RunFresh ==
    /\ main_i = 1
    /\ pr_list = <<>>
    /\ status_calls = <<>>
    /\ llm_calls = <<>>
    /\ llm_results = <<>>
    /\ api_calls = <<>>
    /\ batch_ops = <<>>
    /\ document_id = ""
    /\ log = <<>>

\* main is not running
RunIdle ==
    /\ main_pc = "idle"
    /\ env = AllSet
    /\ catalog = <<>>
    /\ RunFresh

\* fetch_all_prs_by_user has returned every item of the collection after one
\* request
FetchedAll ==
    /\ pc = "returned"
    /\ total = Len(catalog)
    /\ page = 1
    /\ prs = [k \in 1..Len(catalog) |-> k]
    /\ requests = <<1>>
    /\ responses = <<200>>
    /\ sleeps = <<>>

\* main is about to run `stage` on the records of a collection from `catalogs`
AtStage(stage, catalogs) ==
    /\ main_pc = stage
    /\ catalog \in catalogs
    /\ FetchedAll
    /\ RunFresh
    /\ StatusIdle
    /\ AssemblerIdle
    /\ TableIdle

\* the logins a search item can carry; the key may be missing
Logins == {Absent, "alice", "bob", "unknown"}

----------------------------------------------------------------------------
(* Specifications *)

Init == FetchInit /\ StatusIdle /\ AssemblerIdle /\ TableIdle /\ RunIdle

Next == FetchRateLimited \/ FetchError \/ FetchPage

\* one call of fetch_all_prs_by_user
Spec == Init /\ [][Next]_vars

\* the same call when the process keeps running: `while True` takes its next
\* turn as long as it has not left the loop; the responses, and with them
\* the branch taken, stay the collaborator's choice
SpecLive == Spec /\ WF_vars(Next)

StatusSpecInit == FetchIdle /\ StatusInit /\ AssemblerIdle /\ TableIdle /\ RunIdle

StatusNext == StatusDirect \/ StatusRequestDetail \/ StatusDetailResponse

\* one call of get_pr_status
SpecStatus == StatusSpecInit /\ [][StatusNext]_vars

AssembleInit ==
    FetchIdle /\ StatusIdle /\ (UploadInit \/ ConvertInit) /\ TableIdle /\ RunIdle

AssembleNext ==
    \/ InsertOverallHeader
    \/ InsertOverallSummary
    \/ InsertHeader
    \/ InsertUserTable
    \/ InsertNewlineAfterUserTable
    \/ InsertDashboardTable
    \/ InsertNewlineAfterDashboardTable
    \/ InsertDetailedSummaries
    \/ ConvertBlankLine
    \/ ConvertHeadingLine
    \/ ConvertPlainLine
    \/ ConvertReturn

\* one assembly of the operation list, by either assembler
SpecAssemble == AssembleInit /\ [][AssembleNext]_vars

TableSpecInit == FetchIdle /\ StatusIdle /\ AssemblerIdle /\ TableInit /\ RunIdle

TableNext == BuildTable

\* one call of build_plain_table_string
SpecTable == TableSpecInit /\ [][TableNext]_vars

UserSummaryInit ==
    /\ AtStage("user_table", Collections(MaxPRs, Logins, {"open"}, {TRUE}, {TRUE}))
    /\ env = AllSet

UserSummaryNext == MainUserTable

\* one call of generate_user_summary_table
SpecUserSummary == UserSummaryInit /\ [][UserSummaryNext]_vars

\* the states a search item can carry; the key may be missing
States == {Absent, "open", "closed"}

DashboardInit ==
    /\ AtStage("dashboard", Collections(MaxPRs, {"alice"}, States, BOOLEAN, {TRUE}))
    /\ env = AllSet

DashboardNext == DashboardAddRow \/ DashboardReturn

\* one call of generate_dashboard_table
SpecDashboard == DashboardInit /\ [][DashboardNext]_vars

\* the collections a run is tried on: none; two open records and a closed
\* one by alice; a closed item without login, link or pull_request entry
RunCatalogs ==
    { <<>>,
      <<PR(1, "alice", "open", TRUE, TRUE), PR(2, "alice", "open", TRUE, TRUE),
        PR(3, "alice", "closed", TRUE, TRUE)>>,
      <<PR(1, Absent, "closed", FALSE, FALSE)>> }

\* the program is started: the module is imported, then main runs
MainInit ==
    /\ main_pc = "import"
    /\ env \in Envs
    /\ catalog \in RunCatalogs
    /\ RunFresh
    /\ pc = "idle"
    /\ total = Len(catalog)
    /\ page = 1
    /\ prs = <<>>
    /\ requests = <<>>
    /\ responses = <<>>
    /\ sleeps = <<>>
    /\ StatusIdle
    /\ AssemblerIdle
    /\ TableIdle

MainNext ==
    \/ ConfigCheck
    \/ GetUsername
    \/ FetchRateLimited
    \/ FetchError
    \/ FetchPage
    \/ FetchReturned
    \/ OverallStatus
    \/ OverallNoToken
    \/ OverallPost
    \/ MainHeader
    \/ MainUserTable
    \/ DashboardAddRow
    \/ DashboardReturn
    \/ DetailedPost
    \/ DetailedNoToken
    \/ DetailedReturn
    \/ CreateDocument
    \/ InsertOverallHeader
    \/ InsertOverallSummary
    \/ InsertHeader
    \/ InsertUserTable
    \/ InsertNewlineAfterUserTable
    \/ InsertDashboardTable
    \/ InsertNewlineAfterDashboardTable
    \/ InsertDetailedSummaries
    \/ BatchUpdate
    \/ ShareDocument

\* one run of dashboard_docs.py
SpecMain == MainInit /\ [][MainNext]_vars

\* the environments that pass the checks made at import
StartableEnvs ==
    {e \in Envs : e["GRANITE_ENDPOINT"] /\ e["GITHUB_TOKEN"] /\ e["SHARE_EMAIL"]}

DetailedInit ==
    /\ AtStage("detailed", Collections(MaxPRs, {"alice"}, {"open"}, {TRUE}, BOOLEAN))
    /\ env \in StartableEnvs

DetailedNext == DetailedPost \/ DetailedNoToken \/ DetailedReturn

\* one call of generate_detailed_pr_summaries
SpecDetailed == DetailedInit /\ [][DetailedNext]_vars

----------------------------------------------------------------------------
(* Properties of the paginated fetcher *)

CeilDiv(a, b) == (a + b - 1) \div b

AllOk == \A i \in 1..Len(responses) : responses[i] = 200

\* the items of the pages named in ps, concatenated in that order
RECURSIVE PagesConcat(_, _)
PagesConcat(t, ps) ==
    IF ps = <<>> THEN <<>>
    ELSE SearchPage(t, per_page, Head(ps)) \o PagesConcat(t, Tail(ps))

\* the page numbers of the first n requests that were answered with 200, in order
RECURSIVE OkPagesUpTo(_)
OkPagesUpTo(n) ==
    IF n = 0 THEN <<>>
    ELSE IF responses[n] = 200 THEN Append(OkPagesUpTo(n - 1), requests[n])
         ELSE OkPagesUpTo(n - 1)

\* C1 as stated: without any 403 response the fetch issues exactly
\* ceil(total / per_page) requests and returns exactly total records.
C1_CeilRequests ==
    (pc = "returned" /\ Count(responses, 403) = 0)
        => (Len(requests) = CeilDiv(total, per_page) /\ Len(prs) = total)

\* C1 (amended): when every response is 200 the fetch issues exactly
\* floor(total / per_page) + 1 requests (one more than ceil(total / per_page)
\* when total is a multiple of per_page, zero included) and returns exactly
\* the total records, in order.
C1_FloorPlusOneRequests ==
    (pc = "returned" /\ AllOk)
        => /\ Len(requests) = (total \div per_page) + 1
           /\ (total % per_page # 0 => Len(requests) = CeilDiv(total, per_page))
           /\ (total % per_page = 0 => Len(requests) = CeilDiv(total, per_page) + 1)
           /\ Len(prs) = total
           /\ prs = [i \in 1..total |-> i]

C1_Witness ==
    pc = "returned" /\ AllOk /\ total = 2 * per_page /\ Len(requests) = 3 /\ Len(prs) = total

\* C2: every 403 response is followed by exactly one pause of COOLDOWN and a
\* request for the same page; the pages answered with 200 are 1, 2, .. m, each
\* once, and prs is exactly their items, so a retried page is neither skipped
\* nor duplicated.
C2_RetrySamePage ==
    /\ Len(sleeps) = Count(responses, 403)
    /\ \A i \in 1..Len(sleeps) : sleeps[i] = COOLDOWN
    /\ \A i \in 1..Len(responses) :
          responses[i] = 403 =>
             /\ (i < Len(requests) => requests[i + 1] = requests[i])
             /\ (i = Len(requests) => pc = "loop" /\ page = requests[i])
             /\ Len(PagesConcat(total, OkPagesUpTo(i))) = Len(PagesConcat(total, OkPagesUpTo(i - 1)))
    /\ LET ok == OkPagesUpTo(Len(responses))
       IN  /\ ok = [k \in 1..Len(ok) |-> k]
           /\ prs = PagesConcat(total, ok)
           /\ prs = [k \in 1..Len(prs) |-> k]

C2_Witness ==
    /\ pc = "returned"
    /\ responses = <<200, 403, 403, 200>>
    /\ requests = <<1, 2, 2, 2>>
    /\ sleeps = <<COOLDOWN, COOLDOWN>>
    /\ Len(prs) = total
    /\ total > per_page

\* C3: a response that is neither 200 nor 403 is the last request of the
\* fetch, which then has returned exactly the items of the pages fetched
\* successfully before it, in page order.
C3_ErrorReturnsPartial ==
    \A i \in 1..Len(responses) :
       responses[i] \notin {200, 403} =>
          /\ i = Len(requests)
          /\ pc = "returned"
          /\ prs = PagesConcat(total, OkPagesUpTo(i - 1))
          /\ Len(prs) = per_page * Count(responses, 200)

C3_Witness ==
    /\ pc = "returned"
    /\ responses = <<200, 500>>
    /\ Len(prs) = per_page

\* C4: a successful page shorter than per_page is the last request, its items
\* end the returned list and the fetch has returned; a successful page of
\* exactly per_page items is followed by a request for the next page number;
\* and a fetch that returned after a 200 response returned on a short page.
C4_StopsAtFirstShortPage ==
    /\ \A i \in 1..Len(responses) :
          responses[i] = 200 =>
             LET items == SearchPage(total, per_page, requests[i])
             IN  /\ Len(items) < per_page =>
                       /\ i = Len(requests)
                       /\ pc = "returned"
                       /\ Len(prs) >= Len(items)
                       /\ SubSeq(prs, Len(prs) - Len(items) + 1, Len(prs)) = items
                 /\ Len(items) = per_page =>
                       /\ (i < Len(requests) => requests[i + 1] = requests[i] + 1)
                       /\ (i = Len(requests) => pc = "loop" /\ page = requests[i] + 1)
    /\ (pc = "returned" /\ responses # <<>> /\ responses[Len(responses)] = 200)
          => Len(SearchPage(total, per_page, requests[Len(requests)])) < per_page
    /\ (requests # <<>> => requests[1] = 1)

C4_Witness ==
    /\ pc = "returned"
    /\ responses = <<200, 200>>
    /\ requests = <<1, 2>>
    /\ total = per_page + 50
    /\ Len(prs) = total

----------------------------------------------------------------------------
(* Properties of the status resolver *)

HasDetailResponse == sr_pc = "returned" /\ detail_requests # <<>>

\* C5: for a closed record whose detail request was answered with 200, the
\* result is merged exactly when the response carries a non-empty merge
\* timestamp, and closed otherwise.
C5_MergedIffTimestamp ==
    (HasDetailResponse /\ sr_pr.state = "closed" /\ sr_resp.status_code = 200)
        => /\ (sr_result = "merged") <=> (sr_resp.merged_at \notin {Absent, Null, ""})
           /\ (sr_result = "closed") <=> (sr_resp.merged_at \in {Absent, Null, ""})

C5_Witness ==
    /\ HasDetailResponse
    /\ sr_pr.state = "closed"
    /\ sr_resp.status_code = 200
    /\ sr_resp.merged_at = ""
    /\ sr_result = "closed"

\* C6: for an open record no detail request is ever issued and the value
\* returned is open.
C6_OpenNoDetailCall ==
    sr_pr.state = "open"
        => /\ detail_requests = <<>>
           /\ sr_pc # "awaiting"
           /\ (sr_pc = "returned" => sr_result = "open")

C6_Witness ==
    /\ sr_pc = "returned"
    /\ sr_pr.state = "open"
    /\ sr_pr.has_pull_request
    /\ sr_pr.url = "u1"
    /\ sr_result = "open"

\* C7: when the detail request of a closed record is answered with a status
\* other than 200, the call still returns, and returns closed, in both copies
\* of get_pr_status.
C7_DetailFailureIsClosed ==
    (sr_resp # NoResponse /\ sr_resp.status_code # 200)
        => (sr_pc = "returned" /\ sr_pr.state = "closed" /\ sr_result = "closed")

C7_Witness ==
    /\ HasDetailResponse
    /\ sr_impl = "github_api"
    /\ sr_resp.status_code = 500
    /\ sr_result = "closed"

\* C8: the value returned by get_pr_status is one of open, closed, merged.
C8_StatusInRange ==
    sr_pc = "returned" => sr_result \in {"open", "closed", "merged"}

\* C9 as stated: every closed record causes exactly one detail request before
\* the call returns.
C9_ClosedExactlyOneRequest ==
    (sr_pc = "returned" /\ sr_pr.state = "closed") => Len(detail_requests) = 1

\* C9 (amended): a closed record that has a pull_request entry with a
\* non-empty url causes exactly one detail request, to that url, before the
\* call returns; a closed record without one causes none and closed is
\* returned.
C9_ClosedOneRequestIfUrl ==
    sr_pr.state = "closed" =>
        IF sr_pr.has_pull_request /\ sr_pr.url \notin {Absent, ""}
           THEN /\ sr_pc \in {"awaiting", "returned"} => detail_requests = <<sr_pr.url>>
                /\ sr_pc = "entry" => detail_requests = <<>>
           ELSE /\ detail_requests = <<>>
                /\ sr_pc # "awaiting"
                /\ (sr_pc = "returned" => sr_result = "closed")

C9_Witness ==
    /\ sr_pc = "returned"
    /\ sr_pr.state = "closed"
    /\ sr_pr.url = "u2"
    /\ detail_requests = <<"u2">>

C9_WitnessNoUrl ==
    /\ sr_pc = "returned"
    /\ sr_pr.state = "closed"
    /\ ~sr_pr.has_pull_request
    /\ detail_requests = <<>>

----------------------------------------------------------------------------
(* Properties of the document assemblers *)

\* the number of characters inserted by the operations ops
RECURSIVE InsertedLength(_)
InsertedLength(ops) ==
    IF ops = <<>> THEN 0
    ELSE (IF Head(ops).kind = "insertText" THEN Len(Head(ops).text) ELSE 0)
         + InsertedLength(Tail(ops))

\* the length of the buffer after applying ops in order to a buffer of length
\* n, or -1 when an insertText lies outside the buffer it is applied to
RECURSIVE ReplayLength(_, _)
ReplayLength(ops, n) ==
    IF ops = <<>> THEN n
    ELSE LET op == Head(ops)
         IN  IF op.kind # "insertText" THEN ReplayLength(Tail(ops), n)
             ELSE IF op.index < 1 \/ op.index > n + 1 THEN -1
             ELSE ReplayLength(Tail(ops), n + Len(op.text))

\* C10: at every point of the assembly the cursor is 1 plus the number of
\* characters inserted so far, every insertText sits at the cursor value of
\* its moment (1 plus the characters inserted before it), and replaying the
\* operations on an empty buffer gives a buffer of length cursor - 1.
C10_CursorInvariant ==
    /\ current_index = 1 + InsertedLength(requests_list)
    /\ \A i \in 1..Len(requests_list) :
          requests_list[i].kind = "insertText" =>
             requests_list[i].index = 1 + InsertedLength(SubSeq(requests_list, 1, i - 1))
    /\ ReplayLength(requests_list, 0) = current_index - 1

C10_Witness ==
    /\ asm_pc = "done"
    /\ asm_impl = "dashboard_docs"
    /\ Len(user_table_data) = 3
    /\ Len(requests_list) = 10
    /\ current_index > 100

C10_WitnessMarkdown ==
    /\ asm_pc = "done"
    /\ asm_impl = "main"
    /\ Len(requests_list) = 3
    /\ requests_list[2].kind = "updateParagraphStyle"
    /\ current_index = 4


IsStyle(op) == op.kind \in {"updateTextStyle", "updateParagraphStyle"}

\* C11: every style operation comes right after an insertText and its range
\* is exactly that insertion: it starts at the insert's index and ends at
\* that index plus the length of the inserted text, terminator included; so
\* no insertText is followed by two style operations.
C11_StyleCoversInsertedSpan ==
    \A i \in 1..Len(requests_list) :
       IsStyle(requests_list[i]) =>
          /\ i > 1
          /\ requests_list[i - 1].kind = "insertText"
          /\ requests_list[i].startIndex = requests_list[i - 1].index
          /\ requests_list[i].endIndex =
                requests_list[i].startIndex + Len(requests_list[i - 1].text)
          /\ (i < Len(requests_list) => ~IsStyle(requests_list[i + 1]))

C11_Witness ==
    /\ asm_pc = "done"
    /\ asm_impl = "dashboard_docs"
    /\ Len(dashboard_table_data) = 3
    /\ requests_list[5].kind = "updateTextStyle"
    /\ requests_list[8].kind = "updateTextStyle"
    /\ requests_list[8].endIndex > requests_list[8].startIndex + 100

C11_WitnessMarkdown ==
    /\ asm_pc = "done"
    /\ asm_impl = "main"
    /\ Len(requests_list) = 4
    /\ requests_list[2].kind = "updateParagraphStyle"
    /\ requests_list[4].kind = "updateParagraphStyle"

\* the texts of the insertText operations of ops, in order
RECURSIVE InsertedTexts(_)
InsertedTexts(ops) ==
    IF ops = <<>> THEN <<>>
    ELSE IF Head(ops).kind = "insertText"
         THEN <<Head(ops).text>> \o InsertedTexts(Tail(ops))
         ELSE InsertedTexts(Tail(ops))

\* the blocks of the document in the order of the claim: Overall Summary
\* (heading, text), Weekly Summary header with the date range, Summary by
\* User, PR Dashboard, Detailed Per-PR Summaries
BlocksInOrder ==
    << "Overall Summary\n",
       overall_summary,
       final_header,
       build_plain_table_string(user_table_data),
       "\n",
       build_plain_table_string(dashboard_table_data),
       "\n",
       detailed_text >>

\* C12: at every point of the assembly the texts inserted so far are the
\* first blocks of the fixed order, each followed by a line terminator, and
\* the finished list holds all of them; this also holds for tables that
\* have only their header row (an empty record list).
C12_BlocksInFixedOrder ==
    asm_impl = "dashboard_docs" =>
        LET texts == InsertedTexts(requests_list)
        IN  /\ Len(texts) <= Len(BlocksInOrder)
            /\ \A k \in 1..Len(texts) : texts[k] = BlocksInOrder[k] \o "\n"
            /\ (asm_pc = "done" => Len(texts) = Len(BlocksInOrder))
            /\ (asm_pc = "assemble" => Len(texts) = asm_step - 1)

C12_Witness ==
    /\ asm_pc = "done"
    /\ asm_impl = "dashboard_docs"
    /\ Len(user_table_data) = 1
    /\ Len(dashboard_table_data) = 1
    /\ overall_summary # ""
    /\ Len(InsertedTexts(requests_list)) = 8


----------------------------------------------------------------------------
(* Properties of the table renderer *)

\* number of cells of the shortest row: what zip keeps
ShortestRow(rows) ==
    LET ls == {Len(rows[r]) : r \in 1..Len(rows)}
    IN  CHOOSE m \in ls : \A k \in ls : m <= k

\* the rendered line that shows row r: the separator comes second
LineOf(r) == IF r = 1 THEN 1 ELSE r + 1

\* C13: when build_plain_table_string returns, every rendered line (header,
\* separator, data) has the same number of columns; the width of a column,
\* shown by the separator, is the greatest cell length in that column over
\* all rows, header included; every cell is its text followed by spaces up
\* to that width; the lines are the cells joined by the fixed delimiters
C13_TableRendering ==
    tbl_pc = "returned" =>
        LET n == ShortestRow(table_data)
        IN  /\ Len(tbl_cells) = Len(table_data) + 1
            /\ \A k \in 1..Len(tbl_cells) : Len(tbl_cells[k]) = n
            /\ \A c \in 1..n :
                  LET w == Len(tbl_cells[2][c])
                  IN  /\ \A r \in 1..Len(table_data) : Len(table_data[r][c]) <= w
                      /\ \E r \in 1..Len(table_data) : Len(table_data[r][c]) = w
                      /\ tbl_cells[2][c] = Repeat("-", w)
                      /\ \A r \in 1..Len(table_data) :
                            tbl_cells[LineOf(r)][c] =
                               table_data[r][c] \o Repeat(" ", w - Len(table_data[r][c]))
            /\ Len(tbl_lines) = Len(tbl_cells)
            /\ \A k \in 1..Len(tbl_lines) :
                  tbl_lines[k] = Join(IF k = 2 THEN "-+-" ELSE " | ", tbl_cells[k])
            /\ tbl_result = Join("\n", tbl_lines)

\* a header cell and a data cell are both padded
C13_Witness ==
    /\ tbl_pc = "returned"
    /\ table_data = <<<<"x", "xx">>, <<"xx", "">>>>
    /\ tbl_result = "x  | xx\n---+---\nxx |   "


----------------------------------------------------------------------------
(* Properties of main's stages *)

\* the logins shown for the fetched records
Authors == {UserOf(all_prs[k]) : k \in 1..Len(all_prs)}

AuthoredBy(login) == Cardinality({k \in 1..Len(all_prs) : UserOf(all_prs[k]) = login})

\* the number a count cell shows
CountShown(cell) == CHOOSE n \in 0..Len(all_prs) : ToString(n) = cell

RECURSIVE SumOfCounts(_, _)
SumOfCounts(rows, n) ==
    IF n <= 1 THEN 0 ELSE SumOfCounts(rows, n - 1) + CountShown(rows[n][2])

\* C15: once generate_user_summary_table has returned, the table is the
\* header followed by exactly one row per distinct author login of the
\* fetched records, each row shows the number of records of its login, and
\* the counts shown add up to the number of records
C15_OneRowPerAuthor ==
    main_pc = "dashboard" =>
        /\ user_table_data[1] = UserTableHeader
        /\ Len(user_table_data) = 1 + Cardinality(Authors)
        /\ \A login \in Authors :
              \E r \in 2..Len(user_table_data) :
                 /\ user_table_data[r] = <<login, ToString(AuthoredBy(login))>>
                 /\ \A q \in 2..Len(user_table_data) :
                       user_table_data[q][1] = login => q = r
        /\ \A r \in 2..Len(user_table_data) : user_table_data[r][1] \in Authors
        /\ SumOfCounts(user_table_data, Len(user_table_data)) = Len(all_prs)

\* three records by alice give the single row alice, 3
C15_Witness ==
    /\ main_pc = "dashboard"
    /\ Len(all_prs) = 3
    /\ \A k \in 1..3 : all_prs[k].login = "alice"
    /\ user_table_data = <<UserTableHeader, <<"alice", "3">>>>

\* two authors, one of them twice, and not in a row
C15_WitnessTwoAuthors ==
    /\ main_pc = "dashboard"
    /\ Len(all_prs) = 3
    /\ all_prs[1].login = "bob" /\ all_prs[2].login = "alice" /\ all_prs[3].login = "bob"
    /\ user_table_data = <<UserTableHeader, <<"bob", "2">>, <<"alice", "1">>>>


\* the get_pr_status calls made by one caller, in order
StatusCallsOf(caller) == SelectSeq(status_calls, LAMBDA c : c.caller = caller)

\* the data rows generate_dashboard_table has appended so far
DashboardRows == Len(dashboard_table_data) - 1

\* the statuses get_pr_status can return for a record
PossibleStatuses(pr) ==
    IF NeedsDetail(pr) THEN {"merged", "closed"} ELSE {CoarseState(pr)}

\* C16: the dashboard table is the header followed by one row per record
\* handled so far, in input order: row k shows the fields of record k and,
\* as its status, the value the k-th get_pr_status call of the stage returned
\* for that record; when the stage has returned, every fetched record has
\* its row
C16_DashboardRows ==
    main_pc \in {"dashboard", "detailed"} =>
        LET calls == StatusCallsOf("generate_dashboard_table")
        IN  /\ dashboard_table_data[1] = DashboardTableHeader
            /\ DashboardRows = Len(calls)
            /\ main_pc = "dashboard" => DashboardRows = main_i - 1
            /\ main_pc = "detailed" => DashboardRows = NumPrs
            /\ \A k \in 1..DashboardRows :
                  LET row == dashboard_table_data[k + 1]
                      pr  == all_prs[k]
                  IN  /\ row[2] = ToString(pr.number)
                      /\ row[3] = pr.title
                      /\ row[4] = UserOf(pr)
                      /\ calls[k].number = pr.number
                      /\ row[6] = calls[k].status
                      /\ row[6] \in PossibleStatuses(pr)

\* two open records and a closed one that the detail collaborator reports
\* as merged are shown as open, open, merged
C16_Witness ==
    /\ main_pc = "detailed"
    /\ NumPrs = 3
    /\ [k \in 1..3 |-> all_prs[k].state] = <<"open", "open", "closed">>
    /\ [k \in 1..3 |-> dashboard_table_data[k + 1][6]] = <<"open", "open", "merged">>
    /\ Len(detail_requests) = 1


\* the requests one summary function has sent, and the values it returned
LLMCallsOf(caller) == SelectSeq(llm_calls, LAMBDA c : c.caller = caller)

LLMResultsOf(caller) == SelectSeq(llm_results, LAMBDA c : c.caller = caller)

\* the records generate_detailed_pr_summaries has handled
DetailedDone == IF main_pc = "detailed" THEN main_i - 1 ELSE NumPrs

\* the sub-sections of the first n records, each with the summary returned
\* for it
RECURSIVE SectionsText(_)
SectionsText(n) ==
    IF n = 0 THEN ""
    ELSE SectionsText(n - 1)
         \o DetailedSection(all_prs[n],
                             LLMResultsOf("generate_pr_detailed_summary")[n].text)

\* the Detailed-Summaries text is one sub-section per handled record, in
\* input order: the heading of the record, then the summary returned for it
SectionsInOrder ==
    /\ Len(LLMResultsOf("generate_pr_detailed_summary")) = DetailedDone
    /\ \A k \in 1..DetailedDone :
          LLMResultsOf("generate_pr_detailed_summary")[k].number = all_prs[k].number
    /\ detailed_text = SectionsText(DetailedDone)

\* C14, as stated: the stage has sent the text-generation collaborator exactly
\* one request per handled record, in input order, and the Detailed-Summaries
\* text has one sub-section per handled record, in input order
C14_OneCallPerRecord ==
    main_pc \in {"detailed", "upload"} =>
        LET calls == LLMCallsOf("generate_pr_detailed_summary")
        IN  /\ Len(calls) = DetailedDone
            /\ \A k \in 1..Len(calls) :
                  /\ calls[k].number = all_prs[k].number
                  /\ calls[k].prompt = DetailedPrompt(all_prs[k])
            /\ SectionsInOrder

\* what the code does: the sub-sections are there in every run, the requests
\* only when GRANITE_TOKEN is set; without it no request is sent
C14_CallsOnlyWithToken ==
    main_pc \in {"detailed", "upload"} =>
        LET calls == LLMCallsOf("generate_pr_detailed_summary")
        IN  /\ SectionsInOrder
            /\ env["GRANITE_TOKEN"] =>
                  /\ Len(calls) = DetailedDone
                  /\ \A k \in 1..Len(calls) :
                        /\ calls[k].number = all_prs[k].number
                        /\ calls[k].prompt = DetailedPrompt(all_prs[k])
            /\ ~env["GRANITE_TOKEN"] => calls = <<>>

\* three records handled without GRANITE_TOKEN: three sub-sections, no request
C14_WitnessNoToken ==
    /\ main_pc = "upload"
    /\ NumPrs = 3
    /\ ~env["GRANITE_TOKEN"]
    /\ llm_calls = <<>>
    /\ Len(LLMResultsOf("generate_pr_detailed_summary")) = 3

\* three records handled with GRANITE_TOKEN: three requests in input order
C14_WitnessToken ==
    /\ main_pc = "upload"
    /\ NumPrs = 3
    /\ env["GRANITE_TOKEN"]
    /\ [k \in 1..Len(llm_calls) |-> llm_calls[k].number] = <<1, 2, 3>>


\* the text-generation collaborator answered with a status other than 200
FailedResult(r) == r.status_code \notin {0, 200}

LinesLogged(line) == Count(log, line)

FailedResultsOf(caller) ==
    Cardinality({k \in 1..Len(LLMResultsOf(caller)) : FailedResult(LLMResultsOf(caller)[k])})

\* every non-200 response of the text-generation collaborator has been logged
\* by the function that received it
FailuresLogged ==
    /\ LinesLogged("ERROR: Error calling Granite API for PR")
          = FailedResultsOf("generate_pr_detailed_summary")
    /\ LinesLogged("ERROR: Error generating overall summary")
          = FailedResultsOf("generate_overall_summary")

\* C17, as stated: every summary function that received a non-200 response
\* has logged it and returned empty text, the overall summary included
C17_FailureGivesEmptyText ==
    /\ FailuresLogged
    /\ \A k \in 1..Len(llm_results) :
          FailedResult(llm_results[k]) => llm_results[k].text = ""

\* C17, amended: every summary function that received a non-200 response has
\* logged it; generate_pr_detailed_summary returned empty text and
\* generate_overall_summary returned the placeholder text, which main then
\* passes on as the overall summary
C17_FailureGivesEmptyOrPlaceholder ==
    /\ FailuresLogged
    /\ \A k \in 1..Len(llm_results) :
          FailedResult(llm_results[k]) =>
             llm_results[k].text =
                IF llm_results[k].caller = "generate_overall_summary"
                   THEN Unavailable ELSE ""
    /\ \A k \in 1..Len(llm_results) :
          (FailedResult(llm_results[k]) /\ llm_results[k].caller = "generate_overall_summary")
             => overall_summary = Unavailable

\* a run in which both the overall request and a per-record request failed
C17_Witness ==
    /\ main_pc = "upload"
    /\ \E k \in 1..Len(llm_results) :
          /\ llm_results[k].caller = "generate_overall_summary"
          /\ llm_results[k].status_code = 500
          /\ llm_results[k].text = "Overall summary unavailable."
    /\ \E k \in 1..Len(llm_results) :
          /\ llm_results[k].caller = "generate_pr_detailed_summary"
          /\ llm_results[k].status_code = 500
          /\ llm_results[k].text = ""
    /\ LinesLogged("ERROR: Error generating overall summary") = 1

\* some request has been sent to a collaborator
AnyRequestSent ==
    \/ requests # <<>>
    \/ detail_requests # <<>>
    \/ llm_calls # <<>>
    \/ api_calls # <<>>

\* C18, as stated: when one of the four configuration values is missing, no
\* request is ever sent to a collaborator and the process does not get past
\* the startup checks, where it halts with an error logged
C18_MissingConfigHalts ==
    (\E v \in EnvNames : ~env[v]) =>
        /\ ~AnyRequestSent
        /\ main_pc \in {"import", "exited"}
        /\ main_pc = "exited" => Len(log) = 1

\* what the code does: the three values checked at import halt the process
\* before any request
C18_CheckedConfigHalts ==
    (\E v \in EnvNames \ {"GRANITE_TOKEN"} : ~env[v]) =>
        /\ ~AnyRequestSent
        /\ main_pc \in {"import", "exited"}
        /\ main_pc = "exited" => Len(log) = 1

\* a run without GRANITE_TOKEN that has sent requests and published a document
C18_WitnessNoToken ==
    /\ ~env["GRANITE_TOKEN"]
    /\ main_pc = "done"
    /\ requests # <<>>
    /\ Len(batch_ops) = 1
    /\ LinesLogged("ERROR: GRANITE_TOKEN is not set. Exiting.") = 1 + NumPrs

ShareFailed ==
    \E k \in 1..Len(api_calls) :
       api_calls[k].call = "drive.permissions.create" /\ ~api_calls[k].ok

\* C19: when the sharing request has failed, the failure is logged, the run
\* has ended normally and not by a crash, and the document that was created
\* and filled by the batch update stays published
C19_ShareFailureNotFatal ==
    ShareFailed =>
        /\ main_pc = "done"
        /\ LinesLogged("ERROR: Failed to share document") = 1
        /\ document_id = "doc-1"
        /\ Len(batch_ops) = 1
        /\ \E k \in 1..Len(api_calls) :
              api_calls[k].call = "docs.batchUpdate" /\ api_calls[k].ok

C19_Witness ==
    /\ ShareFailed
    /\ main_pc = "done"
    /\ NumPrs = 3

BatchUpdateCalls ==
    Cardinality({k \in 1..Len(api_calls) : api_calls[k].call = "docs.batchUpdate"})

\* the upload has made its batch-edit call
BatchSent ==
    main_pc \in {"share", "done"} \/ (main_pc = "crashed" /\ asm_pc = "done")

\* C20: no operation is handed over before assembly is complete; once the
\* batch-edit call is made it is the only one, it carries every operation
\* assembled, in emission order, and no second call follows, whether the
\* call succeeded or failed
C20_OneBatchWithAllOperations ==
    /\ BatchUpdateCalls = Len(batch_ops)
    /\ ~BatchSent => batch_ops = <<>>
    /\ BatchSent =>
          /\ batch_ops = <<requests_list>>
          /\ asm_pc = "done"
          /\ Len(batch_ops[1]) = 10
          /\ InsertedTexts(batch_ops[1]) = [k \in 1..8 |-> BlocksInOrder[k] \o "\n"]
    /\ main_pc = "crashed" => ~ENABLED MainNext

\* a batch update that failed: one call with the ten operations, then nothing
C20_Witness ==
    /\ main_pc = "crashed"
    /\ asm_pc = "done"
    /\ BatchUpdateCalls = 1
    /\ ~api_calls[Len(api_calls)].ok
    /\ Len(batch_ops[1]) = 10
    /\ NumPrs = 3

C20_WitnessSuccess ==
    /\ main_pc = "done"
    /\ BatchUpdateCalls = 1
    /\ Len(batch_ops[1]) = 10


\* the last request of the run to GET /user, the document service or Drive
LastCall == api_calls[Len(api_calls)]

\* the process has ended
Ended == main_pc \in {"done", "exited", "crashed"}

\* an uncaught failure can only come from the document service
CrashOnlyFromDocs ==
    main_pc = "crashed" =>
        (LastCall.call \in {"docs.create", "docs.batchUpdate"} /\ ~LastCall.ok)

\* the only request of the run was the user lookup, and its failure is logged
OnlyUserLookupFailed ==
    /\ Len(api_calls) = 1
    /\ LastCall.call = "github.user"
    /\ requests = <<>> /\ detail_requests = <<>> /\ llm_calls = <<>>
    /\ log = <<"ERROR: Failed to fetch authenticated user info from GitHub">>

\* the run is not stuck: while the operation list is assembled, which
\* involves no collaborator, one of the eight blocks is due; in every other
\* state before the end the program has a next step to take
NotStuck ==
    /\ asm_pc = "assemble" => asm_step \in 1..8
    /\ (~Ended /\ asm_pc # "assemble") => ENABLED MainNext

\* C21, as stated: once the startup checks have passed the process never
\* exits with an error, an uncaught failure can only come from the document
\* service, which the claim does not list, and the run is never stuck
\* before its end
C21_NeverEndsAbnormally ==
    env \in StartableEnvs =>
        /\ main_pc # "exited"
        /\ CrashOnlyFromDocs
        /\ NotStuck

\* C21, amended: once the startup checks have passed, the process exits with
\* an error only when the user lookup failed, with that failure logged and
\* no other request sent; failures of the search, detail, text-generation
\* and sharing collaborators never end it: an uncaught failure can only
\* come from the document service, and the run is never stuck before its
\* end
C21_OnlyUserLookupEndsRun ==
    env \in StartableEnvs =>
        /\ main_pc = "exited" => OnlyUserLookupFailed
        /\ CrashOnlyFromDocs
        /\ NotStuck

\* a run that ended normally although a detail request, the overall and a
\* per-record text-generation request and the sharing request all failed
C21_Witness ==
    /\ main_pc = "done"
    /\ NumPrs = 3
    /\ LinesLogged("WARNING: Failed to get status for PR. Returning 'closed'.") = 2
    /\ LinesLogged("ERROR: Error generating overall summary") = 1
    /\ LinesLogged("ERROR: Error calling Granite API for PR") = 3
    /\ ShareFailed

\* a run that ended normally with an empty report after the search failed
C21_WitnessSearchFailed ==
    /\ main_pc = "done"
    /\ Len(catalog) = 3
    /\ responses[Len(responses)] = 500
    /\ prs = <<>>
    /\ Len(dashboard_table_data) = 1

\* the user lookup failed after the startup checks had passed
C21_WitnessUserLookupFailed ==
    /\ env = AllSet
    /\ main_pc = "exited"
    /\ api_calls = <<Call("github.user", FALSE)>>


\* the get_pr_status calls made for the record with the given number
StatusCallsFor(n) == {k \in 1..Len(status_calls) : status_calls[k].number = n}

\* the detail requests sent to a url
DetailRequestsTo(url) == {k \in 1..Len(detail_requests) : detail_requests[k] = url}

\* both stages that resolve statuses have returned
StatusesResolved ==
    main_pc \in {"detailed", "upload", "share", "done", "crashed"}

\* C22, as stated: in one run get_pr_status is called at most once for a
\* record, and exactly once for every fetched record when the stages that
\* show statuses have returned; no detail url is requested twice; all calls
\* for a record returned the same status
C22_StatusResolvedOncePerRecord ==
    /\ \A k \in 1..NumPrs :
          /\ Cardinality(StatusCallsFor(all_prs[k].number)) <= 1
          /\ StatusesResolved => Cardinality(StatusCallsFor(all_prs[k].number)) = 1
          /\ Truthy(all_prs[k].url) =>
                Cardinality(DetailRequestsTo(all_prs[k].url)) <= 1
    /\ \A i, j \in 1..Len(status_calls) :
          status_calls[i].number = status_calls[j].number
             => status_calls[i].status = status_calls[j].status

\* what the code does: get_pr_status is called once per record by
\* generate_overall_summary and once more by generate_dashboard_table, so a
\* closed record with a detail url causes two detail requests
C22_StatusResolvedTwicePerRecord ==
    StatusesResolved =>
        \A k \in 1..NumPrs :
           /\ Cardinality(StatusCallsFor(all_prs[k].number)) = 2
           /\ \E i, j \in StatusCallsFor(all_prs[k].number) :
                 /\ i < j
                 /\ status_calls[i].caller = "generate_overall_summary"
                 /\ status_calls[j].caller = "generate_dashboard_table"
           /\ NeedsDetail(all_prs[k]) =>
                 Cardinality(DetailRequestsTo(all_prs[k].url)) = 2

\* a closed record that the overall summary calls merged and the dashboard
\* shows as closed, after two detail requests to its url
C22_WitnessTwoStatuses ==
    /\ main_pc = "done"
    /\ NumPrs = 3
    /\ Len(detail_requests) = 2
    /\ pr_list[3] = "- PR title 3 (merged)"
    /\ dashboard_table_data[4][6] = "closed"


----------------------------------------------------------------------------
(* Termination of the paginated fetcher *)

\* the step receives a 403 response
RateLimitedStep ==
    /\ Len(responses') = Len(responses) + 1
    /\ responses'[Len(responses')] = 403

\* C23: with the 403 answers limited to MaxRateLimits and a finite
\* collection, the loop eventually returns; a request asks for the same page
\* as the one before it exactly when that one was answered with 403, and
\* otherwise for the next page; a step that receives 403 stays in the loop
\* and leaves the page and the accumulated records as they were, so a run
\* of 403 answers, however long, neither returns nor advances the page
C23_FetchLoopReturns ==
    /\ <>(pc = "returned")
    /\ [](\A k \in 2..Len(requests) :
             /\ (requests[k] = requests[k - 1]) <=> (responses[k - 1] = 403)
             /\ responses[k - 1] # 403 => requests[k] = requests[k - 1] + 1)
    /\ [][RateLimitedStep => (pc' = "loop" /\ page' = page /\ prs' = prs)]_vars

\* three pages fetched with the greatest number of 403 answers in between
C23_Witness ==
    /\ pc = "returned"
    /\ total = 2 * per_page + 1
    /\ Count(responses, 403) = MaxRateLimits
    /\ Count(responses, 200) = 3
    /\ Len(requests) = 3 + MaxRateLimits
    /\ page = 3


----------------------------------------------------------------------------
(* Order of the publishing steps *)

\* the positions in api_calls of the calls with the given name
CallsNamed(name) == {k \in 1..Len(api_calls) : api_calls[k].call = name}

\* upload_to_google_docs has returned the document id to main
UploadReturned == main_pc \in {"share", "done"}

\* C24: every batch-edit call comes after a successful create-document call
\* and names the id that call gave; upload_to_google_docs has returned only
\* if a batch-edit call has succeeded; every sharing call comes after the
\* successful batch-edit call and names the id create-document gave; after
\* a failed batch-edit call there is no sharing call and the run has crashed
C24_PublishingOrder ==
    /\ \A b \in CallsNamed("docs.batchUpdate") :
          /\ \E c \in CallsNamed("docs.create") :
                c < b /\ api_calls[c].ok /\ api_calls[c].document = api_calls[b].document
          /\ ~api_calls[b].ok =>
                (CallsNamed("drive.permissions.create") = {} /\ main_pc = "crashed")
    /\ UploadReturned =>
          \E b \in CallsNamed("docs.batchUpdate") : api_calls[b].ok
    /\ \A s \in CallsNamed("drive.permissions.create") :
          \E c \in CallsNamed("docs.create"), b \in CallsNamed("docs.batchUpdate") :
             /\ c < b /\ b < s
             /\ api_calls[b].ok
             /\ api_calls[s].document = api_calls[c].document
             /\ api_calls[s].document = "doc-1"

\* a run that created, filled and shared its document
C24_Witness ==
    /\ main_pc = "done"
    /\ NumPrs = 3
    /\ Len(api_calls) = 4
    /\ api_calls[2].call = "docs.create"
    /\ api_calls[3].call = "docs.batchUpdate"
    /\ api_calls[4].call = "drive.permissions.create"
    /\ \A k \in 2..4 : api_calls[k].ok /\ api_calls[k].document = "doc-1"

\* a run whose batch update failed: no sharing call
C24_WitnessBatchFailed ==
    /\ main_pc = "crashed"
    /\ Len(api_calls) = 3
    /\ api_calls[3] = CallOn("docs.batchUpdate", FALSE, "doc-1")

====
